---- MODULE Spec2Model ----
(***************************************************************************)
(* A model of the FTP server's per-connection session (src/src/main.rs):   *)
(* the Client struct, handle_cmd and every handler it dispatches to, the   *)
(* path sandbox (complete_path) and the host filesystem the handlers act   *)
(* on.  Paths follow std::path semantics component by component; the       *)
(* filesystem is a map from real (host) paths to nodes, with one symlink   *)
(* inside the server root that points outside it.                          *)
(***************************************************************************)
EXTENDS Integers, Sequences, FiniteSets, TLC

(***************************************************************************)
(* Bounds of the model.                                                    *)
(***************************************************************************)
\* Longest real path (in components) at which a handler may create a node.
MaxDepth == 3
\* Most commands one session handles.
MaxCmds == 6

(***************************************************************************)
(* std::path::Path / PathBuf.  A path is its root marker and its raw       *)
(* segments; "." and ".." are segments like any other until a function     *)
(* of std::path (components) or the operating system interprets them.      *)
(***************************************************************************)
P(abs, segs) == [abs |-> abs, segs |-> segs]

\* An absent path (the `path` field of an event that carries none).
NoPath == P(FALSE, <<"<none>">>)

\* Path::components(): "." is dropped everywhere but at the start of a
\* relative path.
Components(p) ==
    LET keep == (~p.abs) /\ Len(p.segs) > 0 /\ p.segs[1] = "."
        rest == IF keep THEN Tail(p.segs) ELSE p.segs
    IN  (IF keep THEN <<".">> ELSE <<>>) \o SelectSeq(rest, LAMBDA c : c # ".")

\* PathBuf == PathBuf compares components.
PathEq(p, q) == p.abs = q.abs /\ Components(p) = Components(q)

\* Path::join: an absolute argument replaces the base.
Join(base, p) == IF p.abs THEN p ELSE P(base.abs, base.segs \o p.segs)

\* path.iter().skip(1).collect() of a path that has a root: the components
\* after the root marker, as a relative path.
SkipRoot(p) == P(FALSE, Components(p))

\* Option<PathBuf>
SomePath(p) == [some |-> TRUE, v |-> p]
NonePath == [some |-> FALSE, v |-> NoPath]

Front(s) == SubSeq(s, 1, Len(s) - 1)
Last(s) == s[Len(s)]

\* Mutant of invalid_path: no component is rejected.
invalid_path_never(path) == FALSE

invalid_path(path) ==
    \E i \in 1..Len(Components(path)) : Components(path)[i] = ".."

prefix_slash(path) == IF ~path.abs THEN Join(P(TRUE, <<>>), path) ELSE path

get_parent(path) ==
    IF Components(path) = <<>> THEN NonePath
    ELSE SomePath(P(path.abs, Front(Components(path))))

\* Option<OsString>: the last component when it is a normal one.
get_filename(path) ==
    IF Components(path) = <<>> \/ Last(Components(path)) \in {".", ".."}
    THEN [some |-> FALSE, v |-> ""]
    ELSE [some |-> TRUE, v |-> Last(Components(path))]

(***************************************************************************)
(* The host filesystem.  A real path is the sequence of names from the     *)
(* host root; fs maps every existing node to "dir", "link" or, for a       *)
(* regular file, its content.                                              *)
(***************************************************************************)
CONFIG_FILE == "config.toml"

\* env::current_dir() at startup: the sandbox root and the process's
\* working directory.
ServerRootReal == <<"srv">>
server_root == P(TRUE, ServerRootReal)

\* Where the symlink inside the root points.
LinkTarget(rp) == <<"etc">>

FileContents == {"secret", "up"}

Kind(v) == IF v \in FileContents THEN "file" ELSE v

InitFs ==
    (<<"srv">> :> "dir") @@ (<<"etc">> :> "dir") @@
    (<<"srv", "pub">> :> "dir") @@
    (<<"srv", "config.toml">> :> "secret") @@
    (<<"srv", "out">> :> "link")

NodeAt(f, rp) ==
    IF rp = <<>> THEN "dir" ELSE IF rp \in DOMAIN f THEN f[rp] ELSE "none"

IsPrefix(a, b) == Len(a) <= Len(b) /\ SubSeq(b, 1, Len(a)) = a

\* Path::starts_with on real paths.
InRoot(rp) == IsPrefix(ServerRootReal, rp)

OkPath(rp) == [ok |-> TRUE, path |-> rp, err |-> ""]
ErrPath(e) == [ok |-> FALSE, path |-> <<>>, err |-> e]

\* The operating system's path walk from directory cur over segs[i..]:
\* every step needs a directory, ".." goes to the real parent, a symlink
\* is followed.
RECURSIVE Walk(_, _, _, _)
Walk(f, cur, segs, i) ==
    IF i > Len(segs) THEN OkPath(cur)
    ELSE IF Kind(NodeAt(f, cur)) # "dir" THEN ErrPath("NotADirectory")
    ELSE IF segs[i] = "." THEN Walk(f, cur, segs, i + 1)
    ELSE IF segs[i] = ".." THEN
        Walk(f, IF cur = <<>> THEN cur ELSE Front(cur), segs, i + 1)
    ELSE LET nxt == Append(cur, segs[i])
             v == NodeAt(f, nxt)
         IN  IF v = "none" THEN ErrPath("NotFound")
             ELSE IF v = "link" THEN
                 LET t == Walk(f, <<>>, LinkTarget(nxt), 1)
                 IN  IF t.ok THEN Walk(f, t.path, segs, i + 1) ELSE t
             ELSE Walk(f, nxt, segs, i + 1)

\* Where the walk of a path starts: the host root, or the process's
\* working directory for a relative path.
StartOf(p) == IF p.abs THEN <<>> ELSE ServerRootReal

\* Path::canonicalize
canonicalize(f, p) ==
    IF (~p.abs) /\ NodeAt(f, ServerRootReal) # "dir" THEN ErrPath("NotFound")
    ELSE Walk(f, StartOf(p), p.segs, 1)

\* Mutant of complete_path: no containment test after canonicalize.
complete_path_unchecked(f, path) ==
    canonicalize(f, Join(server_root, IF path.abs THEN SkipRoot(path) ELSE path))

complete_path(f, path) ==
    LET directory == Join(server_root, IF path.abs THEN SkipRoot(path) ELSE path)
        dir == canonicalize(f, directory)
    IN  IF dir.ok /\ ~InRoot(dir.path) THEN ErrPath("PermissionDenied") ELSE dir

\* Path::strip_prefix(server_root) of a real path, as a relative path.
strip_prefix(rp) ==
    IF InRoot(rp)
    THEN [ok |-> TRUE, v |-> P(FALSE, SubSeq(rp, Len(ServerRootReal) + 1, Len(rp)))]
    ELSE [ok |-> FALSE, v |-> NoPath]

(***************************************************************************)
(* Operating-system calls the handlers make.                               *)
(***************************************************************************)
\* File::create(path) (open with O_CREAT | O_TRUNC) followed by write_all:
\* the real path written, or the error.  A relative path starts at the
\* process's working directory.
OpenCreate(f, p) ==
    IF p.segs = <<>> THEN ErrPath(IF p.abs THEN "IsADirectory" ELSE "NotFound")
    ELSE LET par == Walk(f, StartOf(p), Front(p.segs), 1)
             nm == Last(p.segs)
         IN  IF ~par.ok THEN par
             ELSE IF Kind(NodeAt(f, par.path)) # "dir" THEN ErrPath("NotADirectory")
             ELSE IF nm \in {".", ".."} THEN ErrPath("IsADirectory")
             ELSE LET rp == Append(par.path, nm)
                      v == NodeAt(f, rp)
                  IN  IF v = "none" \/ Kind(v) = "file" THEN OkPath(rp)
                      ELSE IF v = "dir" THEN ErrPath("IsADirectory")
                      ELSE LET t == Walk(f, <<>>, LinkTarget(rp), 1)
                           IN  IF ~t.ok THEN t
                               ELSE IF Kind(NodeAt(f, t.path)) = "file"
                                    THEN OkPath(t.path)
                                    ELSE ErrPath("IsADirectory")

\* The filesystem after a regular file with this content is written at rp.
WriteFile(f, rp, content) ==
    [q \in DOMAIN f \cup {rp} |-> IF q = rp THEN content ELSE f[q]]

\* std::fs::create_dir of a new entry of an existing directory.
MakeDir(f, rp) == [q \in DOMAIN f \cup {rp} |-> IF q = rp THEN "dir" ELSE f[q]]

\* std::fs::remove_dir_all: the directory and everything beneath it.
RemoveTree(f, rp) == [q \in {x \in DOMAIN f : ~IsPrefix(rp, x)} |-> f[q]]

\* The immediate entries of a directory (read_dir).
Children(f, rp) == {q \in DOMAIN f : Len(q) = Len(rp) + 1 /\ IsPrefix(rp, q)}

\* std::fs::metadata follows a symlink; add_file_info lists nothing when it
\* fails.
HasMetadata(f, rp) ==
    IF NodeAt(f, rp) = "link" THEN Walk(f, <<>>, LinkTarget(rp), 1).ok
    ELSE NodeAt(f, rp) # "none"

(***************************************************************************)
(* Configuration (src/src/config.rs): the regular users in order, and the  *)
(* optional admin.                                                         *)
(***************************************************************************)
User(n, pw) == [name |-> n, password |-> pw]

config ==
    [users |-> <<User("anonymous", ""), User("bob", "bpw")>>,
     admin |-> [some |-> TRUE, v |-> User("root", "apw")]]

\* Option<String>
SomeStr(x) == [some |-> TRUE, v |-> x]
NoneStr == [some |-> FALSE, v |-> ""]

\* Option<u16>
SomePort(n) == [some |-> TRUE, v |-> n]
NonePort == [some |-> FALSE, v |-> 0]

(***************************************************************************)
(* What a handler emits, in order: replies on the control connection,      *)
(* writes and the close of the data connection.                            *)
(***************************************************************************)
Ev(kind, code, text, path, data, nums) ==
    [ev |-> kind, code |-> code, text |-> text, path |-> path,
     data |-> data, nums |-> nums]

\* Answer::new(code, message)
Answer(code, text) == Ev("reply", code, text, NoPath, {}, <<>>)
AnswerPath(code, text, path) == Ev("reply", code, text, path, {}, <<>>)
AnswerNums(code, text, nums) == Ev("reply", code, text, NoPath, {}, nums)
DataWrite(data) == Ev("data", "", "", NoPath, data, <<>>)
DataClose == Ev("close_data", "", "", NoPath, {}, <<>>)
CtrlClose == Ev("close_ctrl", "", "", NoPath, {}, <<>>)

\* A decoded Command: its variant and its argument.
Cmd(op, s, p, n) == [op |-> op, s |-> s, p |-> p, n |-> n]

VARIABLES
    fs,               \* the host filesystem
    data_port,        \* Client.data_port
    data_reader,      \* Client.data_reader is Some
    data_writer,      \* Client.data_writer is Some
    cwd,              \* Client.cwd
    name,             \* Client.name
    transfer_type,    \* Client.transfer_type
    writer,           \* the control writer: "open" or "closed"
    is_admin,         \* Client.is_admin
    waiting_password, \* Client.waiting_password
    task,             \* the session task: running, accepting, ended, failed, panicked
    last,             \* the command handled last
    out,              \* what its handler emitted, in order
    error,            \* the error its handler returned, "" when none
    ncmds,            \* how many commands the session has handled
    buf,              \* FtpCodec decoder: the bytes read and not yet consumed
    item,             \* FtpCodec decoder: what the last decode returned
    wbuf,             \* FtpCodec encoder: the bytes to be written
    cop,              \* the codec operation applied last, with its argument
    pc,               \* server: where each connection's task is
    queued,           \* server: lines received from each client, not yet decoded
    handled           \* server: commands each task has handled

\* The codec's buffers, and the tasks of the server.
codecVars == <<buf, item, wbuf, cop>>
serverVars == <<pc, queued, handled>>

\* One session: the Client and its task.
clientVars == <<fs, data_port, data_reader, data_writer, cwd, name, transfer_type,
                writer, is_admin, waiting_password, task, last, out, error, ncmds>>

vars == <<fs, data_port, data_reader, data_writer, cwd, name, transfer_type,
          writer, is_admin, waiting_password, task, last, out, error, ncmds,
          buf, item, wbuf, cop, pc, queued, handled>>

\* The session as a value: what a handler starts from and what it returns.
\* status is how the handler ended: "ok", "err" (it returned Err), "panic",
\* or "accepting" (suspended in listener.accept()).
Self ==
    [fs |-> fs, data_port |-> data_port, data_reader |-> data_reader,
     data_writer |-> data_writer, cwd |-> cwd, name |-> name,
     transfer_type |-> transfer_type, writer |-> writer, is_admin |-> is_admin,
     waiting_password |-> waiting_password, out |-> <<>>, status |-> "ok",
     error |-> ""]

\* Client::send
send(self, answer) == [self EXCEPT !.out = Append(@, answer)]

\* A handler's `?` on an error: it returns Err at once.
Fail(self, e) == [self EXCEPT !.status = "err", !.error = e]

is_logged(self) == self.name.some /\ ~self.waiting_password
(***************************************************************************)
(* The handlers of impl Client, each from the session it is given to the   *)
(* session it returns.                                                     *)
(***************************************************************************)
ConfigReal == Append(ServerRootReal, CONFIG_FILE)

\* self.server_root.join(CONFIG_FILE)
ConfigPath == Join(server_root, P(FALSE, <<CONFIG_FILE>>))

close_data_connection(self) ==
    [self EXCEPT !.data_reader = FALSE, !.data_writer = FALSE,
                 !.out = Append(@, DataClose)]

send_data(self, data) ==
    IF self.data_writer THEN [self EXCEPT !.out = Append(@, DataWrite(data))]
    ELSE self

\* Mutant of cwd: the joined path is stored as typed, not the resolved one.
Client_cwd_unresolved(self, directory) ==
    LET path == Join(self.cwd, directory)
        res == complete_path(self.fs, path)
    IN  IF res.ok
        THEN send([self EXCEPT !.cwd = path],
                  AnswerPath("RequestedFileActionOkay",
                             "Directory changed to", directory))
        ELSE send(self, Answer("FileNotFound", "No such file or directory"))

Client_cwd(self, directory) ==
    LET path == Join(self.cwd, directory)
        res == complete_path(self.fs, path)
        failed == send(self, Answer("FileNotFound", "No such file or directory"))
    IN  IF res.ok
        THEN LET pre == strip_prefix(res.path)
             IN  IF pre.ok
                 THEN send([self EXCEPT !.cwd = pre.v],
                           AnswerPath("RequestedFileActionOkay",
                                      "Directory changed to", directory))
                 ELSE failed
        ELSE failed

\* Mutant of pasv: a new listener is bound whether or not a data channel
\* is open.
pasv_rebinds(self, bindOk, ephemeral) ==
    LET port == IF self.data_port.some THEN self.data_port.v ELSE 0
        bound == IF port = 0 THEN ephemeral ELSE port
    IN  IF ~bindOk THEN Fail(self, "AddrInUse")
        ELSE [send(self, AnswerNums("EnteringPassiveMode", "127,0,0,1",
                                    <<bound \div 256, bound % 256>>))
                EXCEPT !.status = "accepting"]

\* Mutant of pasv: the reply carries the low byte of the port first.
pasv_low_byte_first(self, bindOk, ephemeral) ==
    LET port == IF self.data_port.some THEN self.data_port.v ELSE 0
        bound == IF port = 0 THEN ephemeral ELSE port
    IN  IF self.data_writer
        THEN send(self, Answer("DataConnectionAlreadyOpen", "Already listening..."))
        ELSE IF ~bindOk THEN Fail(self, "AddrInUse")
        ELSE [send(self, AnswerNums("EnteringPassiveMode", "127,0,0,1",
                                    <<bound % 256, bound \div 256>>))
                EXCEPT !.status = "accepting"]

pasv(self, bindOk, ephemeral) ==
    LET port == IF self.data_port.some THEN self.data_port.v ELSE 0
        bound == IF port = 0 THEN ephemeral ELSE port
    IN  IF self.data_writer
        THEN send(self, Answer("DataConnectionAlreadyOpen", "Already listening..."))
        ELSE IF ~bindOk THEN Fail(self, "AddrInUse")
        ELSE [send(self, AnswerNums("EnteringPassiveMode", "127,0,0,1",
                                    <<bound \div 256, bound % 256>>))
                EXCEPT !.status = "accepting"]

quit(self) ==
    IF self.data_writer THEN [self EXCEPT !.status = "panic"]
    ELSE [send(self, Answer("ServiceClosingControlConnection", "Closing connection..."))
            EXCEPT !.writer = "closed", !.out = Append(@, CtrlClose)]

mkd(self, arg) ==
    LET path == Join(self.cwd, arg)
        parent == get_parent(path)
        res == complete_path(self.fs, parent.v)
        filename == get_filename(path)
        dir == Append(res.path, filename.v)
        failed == send(self, Answer("FileNotFound", "Couldn't create folder"))
    IN  IF parent.some /\ res.ok /\ Kind(NodeAt(self.fs, res.path)) = "dir"
           /\ filename.some /\ NodeAt(self.fs, dir) = "none"
        THEN send([self EXCEPT !.fs = MakeDir(@, dir)],
                  Answer("PATHNAMECreated", "Folder successfully created!"))
        ELSE failed

rmd(self, directory) ==
    LET path == Join(self.cwd, directory)
        res == complete_path(self.fs, path)
    IN  IF res.ok /\ Kind(NodeAt(self.fs, res.path)) = "dir"
        THEN send([self EXCEPT !.fs = RemoveTree(@, res.path)],
                  Answer("RequestedFileActionOkay", "successfully removed"))
        ELSE send(self, Answer("FileNotFound", "Couldn't remove folder"))

\* The names add_file_info renders for the entries the caller may see.
Listing(self, rp) ==
    IF Kind(NodeAt(self.fs, rp)) = "dir"
    THEN {Last(q) : q \in {c \in Children(self.fs, rp) :
                              /\ (self.is_admin \/ c # ConfigReal)
                              /\ HasMetadata(self.fs, c)}}
    ELSE IF self.is_admin \/ rp # ConfigReal THEN {Last(rp)} ELSE {}

list(self, arg, readOk) ==
    IF self.data_writer
    THEN LET path == Join(self.cwd, arg)
             res == complete_path(self.fs, path)
             started == send(self, Answer("DataConnectionAlreadyOpen",
                                          "Starting to list directory..."))
             done(s) == send(close_data_connection(s),
                             Answer("ClosingDataConnection", "Transfer done"))
         IN  IF res.ok
             THEN IF Kind(NodeAt(self.fs, res.path)) = "dir" /\ ~readOk
                  THEN \* read_dir failed: the handler returns at once
                       send(started, Answer("InvalidParameterOrArgument",
                                            "No such file or directory"))
                  ELSE done(send_data(started, Listing(self, res.path)))
             ELSE done(send(self, Answer("InvalidParameterOrArgument",
                                         "No such file or directory")))
    ELSE send(self, Answer("ConnectionClosed", "No opened data connection"))

retr(self, arg, openOk) ==
    IF self.data_writer
    THEN LET path == Join(self.cwd, arg)
             res == complete_path(self.fs, path)
             done(s) == send(close_data_connection(s),
                             Answer("ClosingDataConnection", "Transfer done"))
         IN  IF res.ok
             THEN IF Kind(NodeAt(self.fs, res.path)) = "file"
                     /\ (self.is_admin \/ res.path # ConfigReal)
                  THEN LET s1 == send(self, Answer("DataConnectionAlreadyOpen",
                                                   "Starting to send file..."))
                       IN  IF openOk
                           THEN done(send_data(s1, {NodeAt(self.fs, res.path)}))
                           ELSE Fail(s1, "PermissionDenied")
                  ELSE done(send(self, AnswerPath("LocalErrorInProcessing",
                                                  "doesn't exit", P(TRUE, res.path))))
             ELSE done(send(self, AnswerPath("LocalErrorInProcessing",
                                             "doesn't exist", path)))
    ELSE send(self, Answer("ConnectionClosed", "No opened data connection"))

\* Mutant of stor: the path is examined before the data channel.
stor_path_first(self, arg, data) ==
    IF invalid_path(arg) \/ ((~self.is_admin) /\ PathEq(arg, ConfigPath))
    THEN Fail(self, "PermissionDenied")
    ELSE IF self.data_reader
    THEN LET path == Join(self.cwd, arg)
             s1 == [send(self, Answer("DataConnectionAlreadyOpen",
                                      "Starting to send file..."))
                      EXCEPT !.data_reader = FALSE]
             file == OpenCreate(self.fs, path)
         IN  IF file.ok
             THEN send(close_data_connection(
                           [s1 EXCEPT !.fs = WriteFile(@, file.path, data)]),
                       Answer("ClosingDataConnection", "Transfer done"))
             ELSE Fail(s1, file.err)
    ELSE send(self, Answer("ConnectionClosed", "No opened data connection"))

stor(self, arg, data) ==
    IF self.data_reader
    THEN IF invalid_path(arg) \/ ((~self.is_admin) /\ PathEq(arg, ConfigPath))
         THEN Fail(self, "PermissionDenied")
         ELSE LET path == Join(self.cwd, arg)
                  \* receive_data takes the reader and drains it
                  s1 == [send(self, Answer("DataConnectionAlreadyOpen",
                                           "Starting to send file..."))
                           EXCEPT !.data_reader = FALSE]
                  file == OpenCreate(self.fs, path)
              IN  IF file.ok
                  THEN send(close_data_connection(
                                [s1 EXCEPT !.fs = WriteFile(@, file.path, data)]),
                            Answer("ClosingDataConnection", "Transfer done"))
                  ELSE Fail(s1, file.err)
    ELSE send(self, Answer("ConnectionClosed", "No opened data connection"))
(***************************************************************************)
(* Client::handle_cmd: the dispatch on the session's state and the         *)
(* command.  env holds what the environment decides during the handler.    *)
(***************************************************************************)
LoggedCommands ==
    {"Cwd", "List", "Pasv", "Port", "Pwd", "Retr", "Stor", "CdUp", "Mkd", "Rmd"}

cmd_pwd(self) ==
    IF self.cwd.abs \/ self.cwd.segs # <<>>
    THEN send(self, AnswerPath("PATHNAMECreated", "quoted", self.cwd))
    ELSE send(self, Answer("FileNotFound", "No such file or directory"))

cmd_cdup(self) ==
    LET parent == get_parent(self.cwd)
        s1 == IF parent.some THEN [self EXCEPT !.cwd = prefix_slash(parent.v)]
              ELSE self
    IN  send(s1, Answer("Ok", "Done"))

cmd_port(self, port) ==
    send([self EXCEPT !.data_port = SomePort(port)],
         AnswerNums("Ok", "Data port is now", <<port>>))

\* The password the pending credential is compared with.
PassOk(self, content) ==
    IF self.is_admin THEN content = config.admin.v.password
    ELSE \E i \in 1..Len(config.users) :
            /\ SomeStr(config.users[i].name) = self.name
            /\ config.users[i].password = content

\* Mutant of the Pass arm: a wrong password clears the pending name.
cmd_pass_clears_name(self, content) ==
    IF PassOk(self, content)
    THEN send([self EXCEPT !.waiting_password = FALSE],
              Answer("UserLoggedIn", "Welcome"))
    ELSE send([self EXCEPT !.name = NoneStr, !.waiting_password = FALSE],
              Answer("NotLoggedIn", "Invalid password"))

cmd_pass(self, content) ==
    IF PassOk(self, content)
    THEN send([self EXCEPT !.waiting_password = FALSE],
              Answer("UserLoggedIn", "Welcome"))
    ELSE send(self, Answer("NotLoggedIn", "Invalid password"))

\* The first regular user with this name, 0 when there is none.
FindUser(content) ==
    IF \E i \in 1..Len(config.users) : config.users[i].name = content
    THEN CHOOSE i \in 1..Len(config.users) :
            /\ config.users[i].name = content
            /\ \A j \in 1..(i - 1) : config.users[j].name # content
    ELSE 0

\* Mutant of the User arm: the recorded name is cleared, like the admin
\* flag, before the name is looked up.
cmd_user_resets_name(self, content) ==
    IF content = ""
    THEN send(self, Answer("InvalidParameterOrArgument", "Invalid username"))
    ELSE LET isAdmin == config.admin.some /\ config.admin.v.name = content
             u == FindUser(content)
             found == u # 0
             pass_required ==
                 IF found THEN config.users[u].password # ""
                 ELSE IF isAdmin THEN config.admin.v.password # ""
                 ELSE TRUE
             s1 == [self EXCEPT !.is_admin = isAdmin, !.name = NoneStr]
         IN  IF ~found
             THEN send(s1, Answer("NotLoggedIn", "Unknown user..."))
             ELSE IF pass_required
             THEN send([s1 EXCEPT !.name = SomeStr(content),
                                  !.waiting_password = TRUE],
                       Answer("UserNameOkayNeedPassword", "Login Ok password needed"))
             ELSE send([s1 EXCEPT !.name = SomeStr(content),
                                  !.waiting_password = FALSE],
                       Answer("UserLoggedIn", "Welcome"))

cmd_user(self, content) ==
    IF content = ""
    THEN send(self, Answer("InvalidParameterOrArgument", "Invalid username"))
    ELSE LET isAdmin == config.admin.some /\ config.admin.v.name = content
             u == FindUser(content)
             \* `name` is assigned in the loop over the regular users only
             found == u # 0
             pass_required ==
                 IF found THEN config.users[u].password # ""
                 ELSE IF isAdmin THEN config.admin.v.password # ""
                 ELSE TRUE
             s1 == [self EXCEPT !.is_admin = isAdmin]
         IN  IF ~found
             THEN send(s1, Answer("NotLoggedIn", "Unknown user..."))
             ELSE IF pass_required
             THEN send([s1 EXCEPT !.name = SomeStr(content),
                                  !.waiting_password = TRUE],
                       Answer("UserNameOkayNeedPassword", "Login Ok password needed"))
             ELSE send([s1 EXCEPT !.name = SomeStr(content),
                                  !.waiting_password = FALSE],
                       Answer("UserLoggedIn", "Welcome"))

\* The second match of handle_cmd, reached in every session state.
common(self, cmd, env) ==
    CASE cmd.op = "User" -> cmd_user(self, cmd.s)
      [] cmd.op = "NoOp" -> send(self, Answer("Ok", "Doing nothing"))
      [] cmd.op = "Type" ->
            send([self EXCEPT !.transfer_type = cmd.s],
                 Answer("Ok", "Transfer type changed successfully"))
      [] cmd.op = "Syst" -> send(self, Answer("Ok", "I won't tell!"))
      [] cmd.op = "Unknown" -> send(self, Answer("UnknownCommand", "Not implemented"))
      [] cmd.op = "Quit" -> quit(self)
      [] OTHER -> send(self, Answer("NotLoggedIn", "Please log first"))

logged(self, cmd, env) ==
    CASE cmd.op = "Cwd" -> Client_cwd(self, cmd.p)
      [] cmd.op = "List" -> list(self, cmd.p, env.ioOk)
      [] cmd.op = "Pasv" -> pasv(self, env.ioOk, env.port)
      [] cmd.op = "Port" -> cmd_port(self, cmd.n)
      [] cmd.op = "Pwd" -> cmd_pwd(self)
      [] cmd.op = "Retr" -> retr(self, cmd.p, env.ioOk)
      [] cmd.op = "Stor" -> stor(self, cmd.p, env.data)
      [] cmd.op = "CdUp" -> cmd_cdup(self)
      [] cmd.op = "Mkd" -> mkd(self, cmd.p)
      [] cmd.op = "Rmd" -> rmd(self, cmd.p)

\* Mutant of handle_cmd: the commands of a logged-in session are served
\* whether or not the session is logged in.
handle_cmd_ungated(self, cmd, env) ==
    IF cmd.op \in LoggedCommands THEN logged(self, cmd, env)
    ELSE common(self, cmd, env)

handle_cmd(self, cmd, env) ==
    IF is_logged(self) /\ cmd.op \in LoggedCommands THEN logged(self, cmd, env)
    ELSE IF (~is_logged(self)) /\ self.name.some /\ self.waiting_password
            /\ cmd.op = "Pass"
    THEN cmd_pass(self, cmd.s)
    ELSE common(self, cmd, env)
(***************************************************************************)
(* The inputs: what a client sends and what the environment decides.       *)
(***************************************************************************)
UserNames == {"", "anonymous", "bob", "root", "nobody"}
Secrets == {"bpw", "apw", "bad"}
Ports == {2121}
EphemeralPorts == {50000}
Types == {"Image"}

\* The path arguments tried with each command: relative and absolute,
\* through `..`, through the symlink, and the configuration file under
\* its virtual and its real name.
Empty == P(FALSE, <<>>)
CwdArgs == {P(FALSE, <<"pub">>), P(TRUE, <<>>), P(FALSE, <<"..">>), P(FALSE, <<"out">>)}
MkdArgs == {P(FALSE, <<"f">>), P(FALSE, <<"..", "f">>)}
RmdArgs == {P(FALSE, <<"pub">>), P(TRUE, <<>>), P(FALSE, <<"..">>)}
ListArgs == {Empty, P(FALSE, <<"config.toml">>), P(FALSE, <<"out">>), P(FALSE, <<"nofile">>)}
RetrArgs ==
    {P(FALSE, <<"config.toml">>), P(FALSE, <<"pub">>), P(FALSE, <<"out", "f">>),
     P(FALSE, <<"f">>)}
StorArgs ==
    {P(FALSE, <<"f">>), P(TRUE, <<"f">>), P(FALSE, <<"..", "f">>),
     P(FALSE, <<"out", "f">>), P(FALSE, <<"config.toml">>),
     P(TRUE, <<"srv", "config.toml">>)}
PathArgs == CwdArgs \cup MkdArgs \cup RmdArgs \cup ListArgs \cup RetrArgs \cup StorArgs

DefaultEnv == [ioOk |-> TRUE, port |-> 0, data |-> "up"]

(***************************************************************************)
(* src/src/codec.rs: FtpCodec over a BytesMut.  A buffer is the sequence   *)
(* of its bytes.                                                           *)
(***************************************************************************)
\* Longest decoder buffer, and most replies encoded into one buffer.
MaxBuf == 6
MaxAnswers == 3

\* The bytes of b"\r\n", and the space of "{} {}\r\n".
CR == 13
LF == 10
SP == 32

\* What is appended to the decoder's buffer at a time: "PWD", "p", a lone
\* CR, a lone LF, CRLF.
Chunks == {<<80, 87, 68>>, <<112>>, <<CR>>, <<LF>>, <<CR, LF>>}

\* Option<usize>
SomeIdx(i) == [some |-> TRUE, v |-> i]
NoneIdx == [some |-> FALSE, v |-> 0]

\* Mutant of find_crlf: the index of the last window that is CR LF.
find_last_crlf(b) ==
    LET hit(i) == b[i] = CR /\ b[i + 1] = LF
    IN  IF \E i \in 1..(Len(b) - 1) : hit(i)
        THEN SomeIdx((CHOOSE i \in 1..(Len(b) - 1) :
                         hit(i) /\ \A j \in (i + 1)..(Len(b) - 1) : ~hit(j)) - 1)
        ELSE NoneIdx

\* buf.windows(2).position(|bytes| bytes == b"\r\n"): the index, from 0,
\* of the first window that is CR LF.
find_crlf(b) ==
    LET hit(i) == b[i] = CR /\ b[i + 1] = LF
    IN  IF \E i \in 1..(Len(b) - 1) : hit(i)
        THEN SomeIdx((CHOOSE i \in 1..(Len(b) - 1) :
                         hit(i) /\ \A j \in 1..(i - 1) : ~hit(j)) - 1)
        ELSE NoneIdx

\* BytesMut::split_to(at): what is returned, and what the buffer keeps.
split_to(b, at) == [head |-> SubSeq(b, 1, at), rest |-> SubSeq(b, at + 1, Len(b))]

\* ASCII upper case of the letters used here.
Upper(c) == IF c >= 97 /\ c <= 122 THEN c - 32 ELSE c

\* Command::new(line): the verb, up to the first space, is matched without
\* regard to case; a verb that is not known gives Unknown with the text.
Command_new(line) ==
    LET sp == {i \in 1..Len(line) : line[i] = SP}
        n == IF sp = {} THEN Len(line)
             ELSE (CHOOSE i \in sp : \A j \in sp : i <= j) - 1
        verb == [i \in 1..n |-> Upper(line[i])]
    IN  IF verb = <<80, 87, 68>> THEN [op |-> "Pwd", arg |-> <<>>]
        ELSE [op |-> "Unknown", arg |-> line]

\* io::Result<Option<Command>> of a decode, with the line handed to
\* Command::new.
NoItem == [kind |-> "none", line |-> <<>>, cmd |-> [op |-> "", arg |-> <<>>]]
SomeItem(line) == [kind |-> "some", line |-> line, cmd |-> Command_new(line)]

\* FtpCodec::decode: the buffer it leaves and the item it returns.
decode(b) ==
    LET index == find_crlf(b)
    IN  IF index.some
        THEN LET line == split_to(b, index.v)
                 rest == split_to(line.rest, 2)
             IN  [buf |-> rest.rest, item |-> SomeItem(line.head)]
        ELSE [buf |-> b, item |-> NoItem]

\* ResultCode discriminants, `answer.code as u32`.
BadSequenceOfCommands == 503
CantOpenDataConnection == 425
Codes == {BadSequenceOfCommands, CantOpenDataConnection}

\* The messages of the replies encoded: empty, "ok", and one that holds
\* a space.
Messages == {<<>>, <<111, 107>>, <<111, SP, 107>>}

\* format!("{}", n) of a u32: its decimal digits in ASCII.
RECURSIVE Decimal(_)
Decimal(n) == IF n < 10 THEN <<48 + n>> ELSE Append(Decimal(n \div 10), 48 + (n % 10))

\* Mutant of encode: the space is written whether or not there is a message.
encode_with_space(answer, b) ==
    b \o Decimal(answer.code) \o <<SP>> \o answer.message \o <<CR, LF>>

\* FtpCodec::encode: the buffer after the reply is appended.
encode(answer, b) ==
    LET text == IF answer.message = <<>>
                THEN Decimal(answer.code) \o <<CR, LF>>
                ELSE Decimal(answer.code) \o <<SP>> \o answer.message \o <<CR, LF>>
    IN  b \o text

\* The codec before anything was read or written.
NoOp == [op |-> "none", answer |-> [code |-> 0, message |-> <<>>], bytes |-> <<>>]
CodecIdle == buf = <<>> /\ item = NoItem /\ wbuf = <<>> /\ cop = NoOp

(***************************************************************************)
(* fn server: one task per accepted control connection.  Of a task only    *)
(* its position matters here: "reading" at reader.next(), "accepting" at   *)
(* listener.accept() inside pasv, "draining" at reader.next() on the data  *)
(* connection inside stor.                                                 *)
(***************************************************************************)
\* Most lines one client sends.
MaxLines == 3

Sessions == {"c1", "c2"}

Suspended == {"accepting", "draining"}

ServerIdle ==
    /\ pc = [s \in Sessions |-> "unconnected"]
    /\ queued = [s \in Sessions |-> 0]
    /\ handled = [s \in Sessions |-> 0]

(***************************************************************************)
(* The session task (fn client): it handles one command at a time, and     *)
(* ends when a handler returns Err or panics, or the client closes.        *)
(***************************************************************************)
\* client(): the welcome reply is sent, then Client::new.
ClientInit ==
    /\ fs = InitFs
    /\ data_port = NonePort
    /\ data_reader = FALSE
    /\ data_writer = FALSE
    /\ cwd = P(TRUE, <<>>)
    /\ name = NoneStr
    /\ transfer_type = "Ascii"
    /\ writer = "open"
    /\ is_admin = FALSE
    /\ waiting_password = FALSE
    /\ task = "running"
    /\ last = Cmd("Connect", "", NoPath, 0)
    /\ out = <<Answer("ServiceReadyForNewUser", "Welcome to this FTP server!")>>
    /\ error = ""
    /\ ncmds = 0

Init == ClientInit /\ CodecIdle /\ ServerIdle

\* A send on the control writer after it was shut down fails, and the
\* handler returns that error; of the handlers only stor touches the
\* filesystem after its first send.
BrokenPipe(r, cmd) ==
    IF writer = "closed" /\ r.out # <<>>
    THEN [Self EXCEPT !.fs = IF cmd.op = "Stor" THEN fs ELSE r.fs,
                      !.status = "err", !.error = "BrokenPipe"]
    ELSE r

Outcome(cmd, env) == BrokenPipe(handle_cmd(Self, cmd, env), cmd)

Running == task = "running" /\ ncmds < MaxCmds

\* `while let Some(cmd) = reader.next().await { client.handle_cmd(cmd).await? }`
Handle(cmd, env) ==
    /\ \E r \in {Outcome(cmd, env)} :
           /\ \A rp \in DOMAIN r.fs : Len(rp) <= MaxDepth
           /\ fs' = r.fs
           /\ data_port' = r.data_port
           /\ data_reader' = r.data_reader
           /\ data_writer' = r.data_writer
           /\ cwd' = r.cwd
           /\ name' = r.name
           /\ transfer_type' = r.transfer_type
           /\ writer' = r.writer
           /\ is_admin' = r.is_admin
           /\ waiting_password' = r.waiting_password
           /\ task' = CASE r.status = "ok" -> "running"
                        [] r.status = "err" -> "failed"
                        [] r.status = "panic" -> "panicked"
                        [] r.status = "accepting" -> "accepting"
           /\ last' = cmd
           /\ out' = r.out
           /\ error' = r.error
           /\ ncmds' = ncmds + 1
    /\ UNCHANGED <<codecVars, serverVars>>

CmdUser == \E n \in UserNames : Running /\ Handle(Cmd("User", n, NoPath, 0), DefaultEnv)
CmdPass == \E pw \in Secrets : Running /\ Handle(Cmd("Pass", pw, NoPath, 0), DefaultEnv)
CmdNoOp == Running /\ Handle(Cmd("NoOp", "", NoPath, 0), DefaultEnv)
CmdSyst == Running /\ Handle(Cmd("Syst", "", NoPath, 0), DefaultEnv)
CmdUnknown == Running /\ Handle(Cmd("Unknown", "", NoPath, 0), DefaultEnv)
CmdType == \E t \in Types : Running /\ Handle(Cmd("Type", t, NoPath, 0), DefaultEnv)
CmdQuit == Running /\ Handle(Cmd("Quit", "", NoPath, 0), DefaultEnv)
CmdPwd == Running /\ Handle(Cmd("Pwd", "", NoPath, 0), DefaultEnv)
CmdCdUp == Running /\ Handle(Cmd("CdUp", "", NoPath, 0), DefaultEnv)
CmdPort == \E n \in Ports : Running /\ Handle(Cmd("Port", "", NoPath, n), DefaultEnv)
CmdCwd == \E p \in CwdArgs : Running /\ Handle(Cmd("Cwd", "", p, 0), DefaultEnv)
CmdMkd == \E p \in MkdArgs : Running /\ Handle(Cmd("Mkd", "", p, 0), DefaultEnv)
CmdRmd == \E p \in RmdArgs : Running /\ Handle(Cmd("Rmd", "", p, 0), DefaultEnv)
CmdList ==
    \E p \in ListArgs, ok \in BOOLEAN :
        Running /\ Handle(Cmd("List", "", p, 0), [DefaultEnv EXCEPT !.ioOk = ok])
CmdRetr ==
    \E p \in RetrArgs, ok \in BOOLEAN :
        Running /\ Handle(Cmd("Retr", "", p, 0), [DefaultEnv EXCEPT !.ioOk = ok])
CmdStor == \E p \in StorArgs : Running /\ Handle(Cmd("Stor", "", p, 0), DefaultEnv)
CmdPasv ==
    \E ok \in BOOLEAN, e \in EphemeralPorts :
        Running /\ Handle(Cmd("Pasv", "", NoPath, 0), [DefaultEnv EXCEPT !.ioOk = ok, !.port = e])

\* listener.accept() returns: the client connected to the passive port.
DataConnect ==
    /\ task = "accepting"
    /\ data_writer' = TRUE
    /\ data_reader' = TRUE
    /\ task' = "running"
    /\ out' = Append(out, Ev("accept", "", "", NoPath, {}, <<>>))
    /\ UNCHANGED <<codecVars, serverVars, fs, data_port, cwd, name, transfer_type, writer, is_admin,
                   waiting_password, last, error, ncmds>>

\* listener.accept() returns an error, and pasv returns it.
AcceptFail ==
    /\ task = "accepting"
    /\ task' = "failed"
    /\ error' = "Accept"
    /\ UNCHANGED <<codecVars, serverVars, fs, data_port, data_reader, data_writer, cwd, name,
                   transfer_type, writer, is_admin, waiting_password, last, out,
                   ncmds>>

\* reader.next() returns Some(Err(e)): the line did not decode to a Command.
\* The loop logs the error and goes on with the same client; nothing is
\* sent.
DecodeError ==
    /\ Running
    /\ last' = Cmd("Invalid", "", NoPath, 0)
    /\ out' = <<>>
    /\ error' = ""
    /\ ncmds' = ncmds + 1
    /\ UNCHANGED <<codecVars, serverVars, fs, data_port, data_reader, data_writer, cwd, name,
                   transfer_type, writer, is_admin, waiting_password, task>>

\* reader.next() returns None: the client closed the control connection.
ClientClose ==
    /\ task = "running"
    /\ task' = "ended"
    /\ UNCHANGED <<codecVars, serverVars, fs, data_port, data_reader, data_writer, cwd, name,
                   transfer_type, writer, is_admin, waiting_password, last, out,
                   error, ncmds>>

Next ==
    \/ CmdUser \/ CmdPass \/ CmdNoOp \/ CmdSyst \/ CmdUnknown \/ CmdType
    \/ CmdQuit \/ CmdPwd \/ CmdCdUp \/ CmdPort \/ CmdCwd \/ CmdMkd \/ CmdRmd
    \/ CmdList \/ CmdRetr \/ CmdStor \/ CmdPasv
    \/ DecodeError \/ DataConnect \/ AcceptFail \/ ClientClose

Spec == Init /\ [][Next]_vars

(***************************************************************************)
(* The codec on its own.  The decoder: bytes arrive in its buffer and      *)
(* decode is called on it.  The encoder: replies are encoded into its      *)
(* buffer, which is written out.                                           *)
(***************************************************************************)
\* The socket delivered bytes: buf.extend(chunk).
Extend ==
    \E c \in Chunks :
        /\ Len(buf) + Len(c) <= MaxBuf
        /\ buf' = buf \o c
        /\ cop' = [NoOp EXCEPT !.op = "extend", !.bytes = c]
        /\ UNCHANGED <<item, wbuf, clientVars, serverVars>>

\* codec.decode(&mut buf)
Decode ==
    /\ \E r \in {decode(buf)} : buf' = r.buf /\ item' = r.item
    /\ cop' = [NoOp EXCEPT !.op = "decode"]
    /\ UNCHANGED <<wbuf, clientVars, serverVars>>

\* codec.encode(answer, &mut buf)
Encode ==
    \E c \in Codes, m \in Messages :
        /\ Len(SelectSeq(wbuf, LAMBDA x : x = LF)) < MaxAnswers
        /\ wbuf' = encode([code |-> c, message |-> m], wbuf)
        /\ cop' = [NoOp EXCEPT !.op = "encode", !.answer = [code |-> c, message |-> m]]
        /\ UNCHANGED <<buf, item, clientVars, serverVars>>

\* The framed writer wrote the encoder's buffer to the socket.
Flush ==
    /\ wbuf # <<>>
    /\ wbuf' = <<>>
    /\ cop' = [NoOp EXCEPT !.op = "flush"]
    /\ UNCHANGED <<buf, item, clientVars, serverVars>>

DecoderNext == Extend \/ Decode

DecoderSpec == Init /\ [][DecoderNext]_vars

EncoderNext == Encode \/ Flush

EncoderSpec == Init /\ [][EncoderNext]_vars

(***************************************************************************)
(* The server's tasks.  A client may send lines at any time; a task takes  *)
(* the next line only at reader.next() of its loop.                        *)
(***************************************************************************)
\* Mutant of CanRead: a task takes the next line while its handler is
\* suspended.
CanReadSuspended(s) == pc[s] \in {"reading"} \cup Suspended /\ queued[s] > 0

\* `while let Some(cmd) = reader.next().await`: the task is at the head of
\* its loop and a line is there.
CanRead(s) == pc[s] = "reading" /\ queued[s] > 0

\* listener.accept() of fn server returns, and the task is spawned.
Spawn(s) ==
    /\ pc[s] = "unconnected"
    /\ pc' = [pc EXCEPT ![s] = "reading"]
    /\ UNCHANGED <<queued, handled, clientVars, codecVars>>

\* The client writes a line to its control connection.
ClientSend(s) ==
    /\ pc[s] \in {"reading"} \cup Suspended
    /\ queued[s] + handled[s] < MaxLines
    /\ queued' = [queued EXCEPT ![s] = @ + 1]
    /\ UNCHANGED <<pc, handled, clientVars, codecVars>>

\* The task takes a line and its handler runs to the end, or suspends at
\* accept (Pasv) or at the read of the data connection (Stor).
TakeLine(s, to) ==
    /\ queued' = [queued EXCEPT ![s] = @ - 1]
    /\ handled' = [handled EXCEPT ![s] = @ + 1]
    /\ pc' = [pc EXCEPT ![s] = to]
    /\ UNCHANGED <<clientVars, codecVars>>

HandleLine(s) == CanRead(s) /\ TakeLine(s, "reading")
HandlePasv(s) == CanRead(s) /\ TakeLine(s, "accepting")
HandleStor(s) == CanRead(s) /\ TakeLine(s, "draining")

\* The suspended handler is resumed (the data connection is accepted, or
\* read to its end) and returns to the loop.
Resume(s) ==
    /\ pc[s] \in Suspended
    /\ pc' = [pc EXCEPT ![s] = "reading"]
    /\ UNCHANGED <<queued, handled, clientVars, codecVars>>

\* reader.next() returns None.
TaskEnd(s) ==
    /\ pc[s] = "reading" /\ queued[s] = 0
    /\ pc' = [pc EXCEPT ![s] = "ended"]
    /\ UNCHANGED <<queued, handled, clientVars, codecVars>>

ServerNext ==
    \E s \in Sessions :
        \/ Spawn(s) \/ ClientSend(s) \/ HandleLine(s) \/ HandlePasv(s)
        \/ HandleStor(s) \/ Resume(s) \/ TaskEnd(s)

ServerSpec == Init /\ [][ServerNext]_vars
(***************************************************************************)
(* What the properties below are stated with.                              *)
(***************************************************************************)
\* A handler ran in this step, for the command last'.
Handled == ncmds' = ncmds + 1

\* The path has a `..` segment.
HasParentDir(p) == \E i \in 1..Len(p.segs) : p.segs[i] = ".."

\* The real paths at which two filesystems differ.
Changed(f, g) == {rp \in DOMAIN f \cup DOMAIN g : NodeAt(f, rp) # NodeAt(g, rp)}

Authenticated == name.some /\ ~waiting_password

NotLoggedInReply == Answer("NotLoggedIn", "Please log first")

\* The events of a handler that are replies on the control connection.
Replies(evs) == SelectSeq(evs, LAMBDA e : e.ev = "reply")

\* What a handler wrote to the data connection.
DataSent(evs) == UNION {evs[i].data : i \in {j \in 1..Len(evs) : evs[j].ev = "data"}}

\* The path a handler hands to complete_path for the argument arg.
Resolved(arg) == complete_path(fs, Join(cwd, arg))

\* Candidate paths for complete_path: absolute and relative, up to two
\* segments, through `..` and through the symlink.
CandidateSegs == {"..", "out", "pub"}
Candidates ==
    {P(a, s) : a \in BOOLEAN,
               s \in {<<>>} \cup {<<x>> : x \in CandidateSegs}
                            \cup {<<x, y>> : x \in CandidateSegs, y \in CandidateSegs}}

(***************************************************************************)
(* C1.  Every file a Stor creates or overwrites, for an argument without   *)
(* a `..` component and from any working directory, lies at or beneath     *)
(* the sandbox root.                                                       *)
(***************************************************************************)
C1_StorWritesInsideRoot ==
    [][(Handled /\ last'.op = "Stor" /\ ~HasParentDir(last'.p))
          => \A rp \in Changed(fs, fs') : InRoot(rp)]_vars

(***************************************************************************)
(* C2.  For every candidate path, in every reachable filesystem and from   *)
(* every reachable working directory, complete_path returns an error or a  *)
(* path that is the root or beneath it; and what Mkd and Rmd change lies   *)
(* beneath the root.                                                       *)
(***************************************************************************)
ContainedIn(f, wd) ==
    \A p \in Candidates \cup {Join(wd, a) : a \in PathArgs} :
        \A r \in {complete_path(f, p)} : r.ok => InRoot(r.path)

C2_CompletePathContained ==
    /\ []ContainedIn(fs, cwd)
    /\ [][(Handled /\ last'.op \in {"Cwd", "Mkd", "Rmd", "List", "Retr"})
             => \A rp \in Changed(fs, fs') : InRoot(rp)]_vars

\* complete_path refused a path that resolves, through the symlink, to a
\* directory outside the root.
C2_Witness ==
    /\ last.op = "Cwd" /\ last.p = P(FALSE, <<"out">>)
    /\ canonicalize(fs, Join(server_root, P(FALSE, <<"out">>))).ok
    /\ ~InRoot(canonicalize(fs, Join(server_root, P(FALSE, <<"out">>))).path)
    /\ out = <<Answer("FileNotFound", "No such file or directory")>>
(***************************************************************************)
(* C3.  While the session is not Authenticated and its control writer is   *)
(* open, each of Cwd, CdUp, Pwd, Port, Pasv, List, Retr, Stor, Mkd and Rmd *)
(* is answered with the one NotLoggedIn reply and leaves the working       *)
(* directory, the requested data port, the data channel and the            *)
(* filesystem as they were; the session goes on.                           *)
(***************************************************************************)
C3_GatedBeforeLogin ==
    [][(Handled /\ ~Authenticated /\ writer = "open" /\ last'.op \in LoggedCommands)
          => /\ out' = <<NotLoggedInReply>>
             /\ UNCHANGED <<cwd, data_port, data_reader, data_writer, fs>>
             /\ task' = "running"]_vars

\* A Stor was refused while the session awaited a password.
C3_Witness ==
    /\ last.op = "Stor" /\ name.some /\ waiting_password
    /\ out = <<NotLoggedInReply>>

(***************************************************************************)
(* C4.  An Authenticated session whose admin flag is set carries the       *)
(* admin's name.                                                           *)
(***************************************************************************)
C4_AdminFlagOnlyForAdmin ==
    (Authenticated /\ is_admin)
        => (config.admin.some /\ name = SomeStr(config.admin.v.name))

(***************************************************************************)
(* C5.  A session becomes Authenticated under a name only if that name is  *)
(* a configured credential and either its password is empty or the         *)
(* command was a Pass with that credential's password.                     *)
(***************************************************************************)
IsAdminName(n) == config.admin.some /\ config.admin.v.name = n
IsUserName(n) == \E i \in 1..Len(config.users) : config.users[i].name = n

\* The passwords configured for a name.
PasswordsOf(n) ==
    {config.users[i].password : i \in {j \in 1..Len(config.users) : config.users[j].name = n}}
    \cup (IF IsAdminName(n) THEN {config.admin.v.password} ELSE {})

C5_AuthenticatedByOwnPassword ==
    [][(Handled /\ name'.some /\ ~waiting_password' /\ (~Authenticated \/ name' # name))
          => /\ IsAdminName(name'.v) \/ IsUserName(name'.v)
             /\ \/ "" \in PasswordsOf(name'.v)
                \/ last'.op = "Pass" /\ last'.s \in PasswordsOf(name'.v)]_vars

(***************************************************************************)
(* C6.  A session whose caller is not the admin never receives the         *)
(* configuration file through Retr, never sees it in a List, and never     *)
(* creates or overwrites it through Stor.  It is stated for the sessions   *)
(* whose admin flag is not set either, so that what refutes it is not the  *)
(* admin flag of C4.                                                       *)
(***************************************************************************)
CallerIsAdmin == config.admin.some /\ name = SomeStr(config.admin.v.name)

C6_ConfigProtected ==
    [][(Handled /\ Authenticated /\ ~CallerIsAdmin /\ ~is_admin)
          => /\ (last'.op = "Retr" /\ Resolved(last'.p).ok
                    /\ Resolved(last'.p).path = ConfigReal)
                   => DataSent(out') = {}
             /\ (last'.op = "List" /\ Resolved(last'.p).ok
                    /\ Resolved(last'.p).path \in {ServerRootReal, ConfigReal})
                   => CONFIG_FILE \notin DataSent(out')
             /\ last'.op = "Stor" => ConfigReal \notin Changed(fs, fs')]_vars

(***************************************************************************)
(* C7.  A Stor whose argument has a `..` component creates or modifies no  *)
(* file.  As claimed: on an Authenticated session it is rejected with a    *)
(* permission error whether the data channel is Idle or Open.              *)
(***************************************************************************)
C7_DotDotStorPermissionError ==
    [][(Handled /\ Authenticated /\ writer = "open"
           /\ last'.op = "Stor" /\ HasParentDir(last'.p))
          => (fs' = fs /\ error' = "PermissionDenied")]_vars

\* As amended: no file is created or modified in any session state; on
\* an Authenticated session the handler returns the permission error when
\* the data channel is Open, and replies ConnectionClosed, without looking
\* at the path, when it is Idle.
C7_DotDotStorRejected ==
    [][(Handled /\ last'.op = "Stor" /\ HasParentDir(last'.p))
          => /\ fs' = fs
             /\ (Authenticated /\ writer = "open" /\ data_reader)
                   => error' = "PermissionDenied"
             /\ (Authenticated /\ writer = "open" /\ ~data_reader)
                   => /\ out' = <<Answer("ConnectionClosed", "No opened data connection")>>
                      /\ error' = ""]_vars

\* A Stor of `../f` was refused with the data channel Open.
C7_Witness ==
    /\ last.op = "Stor" /\ last.p = P(FALSE, <<"..", "f">>)
    /\ error = "PermissionDenied" /\ data_writer

(***************************************************************************)
(* C8.  As claimed: once Authenticated, the session stays Authenticated    *)
(* for every later command.                                                *)
(***************************************************************************)
C8_AuthenticatedForGood == [][Authenticated => Authenticated']_vars

\* As amended: an Authenticated session stays Authenticated for every
\* command but User; it leaves Authenticated only by a User naming a
\* regular user whose password is not empty, which makes it await that
\* user's password.
C8_OnlyUserLeavesAuthenticated ==
    [][(Authenticated /\ ~Authenticated')
          => /\ last'.op = "User" /\ IsUserName(last'.s)
             /\ config.users[FindUser(last'.s)].password # ""
             /\ name' = SomeStr(last'.s) /\ waiting_password']_vars

\* A session that had logged in and opened its data channel was sent a
\* User naming bob and now awaits bob's password.
C8_Witness ==
    /\ last.op = "User" /\ last.s = "bob"
    /\ name = SomeStr("bob") /\ waiting_password /\ data_writer
    /\ out = <<Answer("UserNameOkayNeedPassword", "Login Ok password needed")>>

(***************************************************************************)
(* C9.  Quit, in every session state in which the control writer is still  *)
(* open, sends the closing reply and shuts the control writer down.        *)
(***************************************************************************)
C9_QuitAlwaysCloses ==
    (last.op = "Quit" /\ error # "BrokenPipe")
        => /\ out = <<Answer("ServiceClosingControlConnection", "Closing connection..."),
                      CtrlClose>>
           /\ writer = "closed"

(***************************************************************************)
(* C10.  The session task ends only on a failure of the control socket or  *)
(* when the client closes: no handler's error or panic ends it.            *)
(***************************************************************************)
C10_OnlyControlFailureEndsSession ==
    /\ task = "failed" => error = "BrokenPipe"
    /\ task # "panicked"

(***************************************************************************)
(* C11.  For every line received while the control writer is open, the     *)
(* line that fails to decode included, the server writes exactly one       *)
(* reply to the control connection.                                        *)
(***************************************************************************)
C11_ExactlyOneReply ==
    [][(Handled /\ writer = "open") => Len(Replies(out')) = 1]_vars

(***************************************************************************)
(* C12.  On an Authenticated session whose data channel is Idle, each of   *)
(* List, Retr and Stor replies ConnectionClosed, touches neither the       *)
(* filesystem nor a data socket, and leaves the session as it was.         *)
(***************************************************************************)
C12_IdleTransferRefused ==
    [][(Handled /\ Authenticated /\ writer = "open"
           /\ ~data_reader /\ ~data_writer
           /\ last'.op \in {"List", "Retr", "Stor"})
          => /\ out' = <<Answer("ConnectionClosed", "No opened data connection")>>
             /\ UNCHANGED <<fs, data_port, data_reader, data_writer, cwd, name,
                            transfer_type, writer, is_admin, waiting_password>>
             /\ task' = "running" /\ error' = ""]_vars

\* A Stor of `../f` with the data channel Idle was answered ConnectionClosed.
C12_Witness ==
    /\ last.op = "Stor" /\ last.p = P(FALSE, <<"..", "f">>)
    /\ Authenticated /\ ~data_reader /\ ~data_writer
    /\ out = <<Answer("ConnectionClosed", "No opened data connection")>>

(***************************************************************************)
(* C13.  Pasv on a session whose data channel is Open replies              *)
(* DataConnectionAlreadyOpen, binds no listener (the handler does not      *)
(* reach accept) and leaves the reader and the writer as they were.        *)
(***************************************************************************)
C13_PasvWhileOpen ==
    [][(Handled /\ Authenticated /\ data_writer /\ last'.op = "Pasv")
          => /\ out' = <<Answer("DataConnectionAlreadyOpen", "Already listening...")>>
             /\ UNCHANGED <<fs, data_port, data_reader, data_writer>>
             /\ task' = "running" /\ error' = ""]_vars

\* A second Pasv was answered with the first data channel still open.
C13_Witness ==
    /\ last.op = "Pasv" /\ data_reader /\ data_writer /\ task = "running"
    /\ out = <<Answer("DataConnectionAlreadyOpen", "Already listening...")>>

(***************************************************************************)
(* C14.  After a List, Retr or Stor issued with the data channel Open has  *)
(* finished with the session alive, the data channel is Idle.              *)
(***************************************************************************)
C14_TransferClosesChannel ==
    [][(Handled /\ Authenticated /\ data_writer
           /\ last'.op \in {"List", "Retr", "Stor"} /\ task' = "running")
          => (~data_reader' /\ ~data_writer')]_vars

(***************************************************************************)
(* C15.  A List on an Authenticated session with an Open data channel and  *)
(* a target that resolves writes the whole listing to the data connection  *)
(* in one write, then closes the data channel, then sends the              *)
(* ClosingDataConnection reply, and sends no closing reply before the      *)
(* write.                                                                  *)
(***************************************************************************)
C15_ListOrder ==
    [][(Handled /\ Authenticated /\ data_writer /\ writer = "open"
           /\ last'.op = "List" /\ Resolved(last'.p).ok)
          => \E i, j, k \in 1..Len(out') :
                /\ i < j /\ j < k
                /\ out'[i] = DataWrite(Listing(Self, Resolved(last'.p).path))
                /\ \A m \in 1..Len(out') : out'[m].ev = "data" => m = i
                /\ out'[j] = DataClose
                /\ out'[k] = Answer("ClosingDataConnection", "Transfer done")
                /\ \A m \in 1..(i - 1) : out'[m].code # "ClosingDataConnection"]_vars

(***************************************************************************)
(* C16.  decode returns None and leaves the buffer as it was exactly when  *)
(* the buffer holds no CR LF; otherwise it hands the bytes before the      *)
(* first CR LF to the command parser, removes them and that CR LF, and     *)
(* leaves the bytes after it in the buffer.                                *)
(***************************************************************************)
HasCRLF(b) == \E i \in 1..(Len(b) - 1) : b[i] = CR /\ b[i + 1] = LF

\* b is pre, CR, LF, post and pre, CR holds no CR LF.
SplitsAtFirstCRLF(b, pre, post) ==
    /\ b = pre \o <<CR, LF>> \o post
    /\ ~HasCRLF(pre \o <<CR>>)

C16_DecodeFirstLine ==
    [][cop'.op = "decode"
          => /\ (item'.kind = "none") <=> ~HasCRLF(buf)
             /\ ~HasCRLF(buf) => buf' = buf
             /\ HasCRLF(buf)
                   => /\ item'.kind = "some"
                      /\ SplitsAtFirstCRLF(buf, item'.line, buf')
                      /\ item'.cmd = Command_new(item'.line)]_vars

\* "PWD", CR LF and one more byte were in the buffer: decode gave Pwd and
\* left that byte.
C16_Witness ==
    /\ cop.op = "decode" /\ item.kind = "some"
    /\ item.line = <<80, 87, 68>> /\ item.cmd.op = "Pwd"
    /\ buf = <<112>>

(***************************************************************************)
(* C17.  encode appends the three decimal digits of the code, then a       *)
(* space and the message when the message is not empty, then CR LF, to     *)
(* what the buffer held.                                                   *)
(***************************************************************************)
ThreeDigits(n) == <<48 + (n \div 100), 48 + ((n \div 10) % 10), 48 + (n % 10)>>

C17_EncodeReply ==
    [][cop'.op = "encode"
          => wbuf' = wbuf \o ThreeDigits(cop'.answer.code)
                          \o (IF cop'.answer.message = <<>> THEN <<>>
                               ELSE <<SP>> \o cop'.answer.message)
                          \o <<CR, LF>>]_vars

\* "425" CR LF was appended, for an empty message, to a buffer that held
\* a reply already.
C17_Witness ==
    /\ cop.op = "encode" /\ cop.answer = [code |-> CantOpenDataConnection, message |-> <<>>]
    /\ wbuf = <<53, 48, 51, SP, 111, 107, CR, LF, 52, 50, 53, CR, LF>>

(***************************************************************************)
(* C18.  While a task's handler is suspended, at accept inside Pasv or at  *)
(* the read of the data connection inside Stor, the task takes no line     *)
(* from its control connection, whatever the client has sent; and a task   *)
(* at the head of its loop with a line to read can take it whatever the    *)
(* other tasks are doing.                                                  *)
(***************************************************************************)
C18_OneCommandAtATime ==
    /\ [][\A s \in Sessions :
             pc[s] \in Suspended
                => (handled'[s] = handled[s] /\ queued'[s] >= queued[s])]_vars
    /\ [](\A s, t \in Sessions :
             (s # t /\ pc[s] \in Suspended /\ pc[t] = "reading" /\ queued[t] > 0)
                => ENABLED HandleLine(t))

\* One task is suspended at accept with a line waiting on its control
\* connection, and the other task has handled a command since.
C18_Witness ==
    /\ pc["c1"] = "accepting" /\ queued["c1"] > 0
    /\ pc["c2"] = "reading" /\ handled["c2"] > 0 /\ queued["c2"] > 0

(***************************************************************************)
(* C19.  On an Authenticated session, whatever Cwd and CdUp commands went  *)
(* before, Pwd replies PATHNAMECreated with the working directory.         *)
(***************************************************************************)
C19_PwdAlwaysAnswers ==
    [][(Handled /\ Authenticated /\ writer = "open" /\ last'.op = "Pwd")
          => out' = <<AnswerPath("PATHNAMECreated", "quoted", cwd)>>]_vars

(***************************************************************************)
(* C20.  The stored working directory is an absolute virtual path in       *)
(* every reachable state.                                                  *)
(***************************************************************************)
C20_CwdAbsolute == cwd.abs

(***************************************************************************)
(* C21.  No reply on the control connection carries the real path of the   *)
(* sandbox root or of anything beneath it.  (No path argument a client     *)
(* sends here spells the real root in a command whose reply repeats the    *)
(* argument, so a reply that carries such a path took it from the server.) *)
(***************************************************************************)
CarriesRealPath(e) == e.ev = "reply" /\ e.path.abs /\ InRoot(e.path.segs)

C21_NoRealPathInReply == \A i \in 1..Len(out) : ~CarriesRealPath(out[i])

(***************************************************************************)
(* C22.  A User command whose name, not empty, is neither the admin's nor  *)
(* a regular user's replies NotLoggedIn and leaves the recorded name, the  *)
(* awaiting-password flag, the admin flag, the working directory and the   *)
(* data channel as they were.                                              *)
(***************************************************************************)
C22_UnknownUserChangesNothing ==
    [][(Handled /\ writer = "open" /\ last'.op = "User" /\ last'.s # ""
           /\ ~IsAdminName(last'.s) /\ ~IsUserName(last'.s))
          => /\ out' = <<Answer("NotLoggedIn", "Unknown user...")>>
             /\ UNCHANGED <<name, waiting_password, is_admin, cwd, data_port,
                            data_reader, data_writer>>]_vars

(***************************************************************************)
(* C23.  User naming the admin is never answered NotLoggedIn: it replies   *)
(* UserNameOkayNeedPassword and the session awaits the password when the   *)
(* admin's password is not empty, and UserLoggedIn with the session        *)
(* Authenticated when it is empty.                                         *)
(***************************************************************************)
C23_AdminNameIsKnown ==
    [][(Handled /\ writer = "open" /\ last'.op = "User" /\ IsAdminName(last'.s))
          => IF config.admin.v.password # ""
             THEN /\ out' = <<Answer("UserNameOkayNeedPassword",
                                     "Login Ok password needed")>>
                  /\ name' = SomeStr(last'.s) /\ waiting_password'
             ELSE /\ out' = <<Answer("UserLoggedIn", "Welcome")>>
                  /\ name' = SomeStr(last'.s) /\ ~waiting_password']_vars

(***************************************************************************)
(* C24.  While the session awaits a password, a Pass whose secret is not   *)
(* the pending credential's replies NotLoggedIn and leaves the session as  *)
(* it was, not Authenticated and still awaiting the password of the same   *)
(* name; and a Pass with the pending credential's secret, in every such    *)
(* state and so after any number of wrong ones, makes it Authenticated     *)
(* under that name.                                                        *)
(***************************************************************************)
AwaitingPassword == name.some /\ waiting_password

\* The passwords of the pending credential: the admin's when the session is
\* admin-flagged, else those of the regular users of the pending name.
PendingSecrets ==
    IF is_admin THEN {config.admin.v.password}
    ELSE {config.users[i].password :
             i \in {j \in 1..Len(config.users) : SomeStr(config.users[j].name) = name}}

C24_WrongPassKeepsPending ==
    [][(Handled /\ AwaitingPassword /\ writer = "open" /\ last'.op = "Pass")
          => IF last'.s \in PendingSecrets
             THEN /\ out' = <<Answer("UserLoggedIn", "Welcome")>>
                  /\ name' = name /\ ~waiting_password'
             ELSE /\ out' = <<Answer("NotLoggedIn", "Invalid password")>>
                  /\ UNCHANGED <<name, waiting_password, is_admin, cwd, fs,
                                 data_port, data_reader, data_writer>>
                  /\ task' = "running"]_vars

\* A wrong password was refused and the session still awaits bob's.
C24_Witness ==
    /\ last.op = "Pass" /\ last.s = "bad"
    /\ name = SomeStr("bob") /\ waiting_password /\ ~is_admin
    /\ out = <<Answer("NotLoggedIn", "Invalid password")>>

(***************************************************************************)
(* C25.  On an Authenticated session, Cwd(p) whose target resolves inside  *)
(* the root replies RequestedFileActionOkay and sets the working directory *)
(* to the resolved path relative to the root; Cwd(p) whose target does not *)
(* resolve replies FileNotFound and leaves the working directory as it     *)
(* was.                                                                    *)
(***************************************************************************)
\* The segments of a real path below the root.
BelowRoot(rp) == SubSeq(rp, Len(ServerRootReal) + 1, Len(rp))

C25_CwdResolvesOrKeeps ==
    [][(Handled /\ Authenticated /\ writer = "open" /\ last'.op = "Cwd")
          => \E r \in {Resolved(last'.p)} :
                IF r.ok
                THEN /\ InRoot(r.path)
                     /\ out' = <<AnswerPath("RequestedFileActionOkay",
                                            "Directory changed to", last'.p)>>
                     /\ cwd' = P(FALSE, BelowRoot(r.path))
                ELSE /\ out' = <<Answer("FileNotFound", "No such file or directory")>>
                     /\ cwd' = cwd]_vars

\* Cwd through the symlink that leaves the root was refused below pub, and a
\* Cwd .. went from pub back to the root.
C25_Witness ==
    /\ last.op = "Cwd" /\ Authenticated
    /\ \/ /\ last.p = P(FALSE, <<"out">>) /\ cwd = P(FALSE, <<"pub">>)
          /\ out = <<Answer("FileNotFound", "No such file or directory")>>
       \/ /\ last.p = P(FALSE, <<"..">>) /\ cwd = P(FALSE, <<>>) /\ ncmds >= 3
          /\ out = <<AnswerPath("RequestedFileActionOkay",
                                "Directory changed to", last.p)>>

(***************************************************************************)
(* C26.  Pasv on an idle data channel, when the listener binds, sends the  *)
(* single reply EnteringPassiveMode 127,0,0,1,p1,p2 with p1*256+p2 the     *)
(* bound port (the one set by Port, else an ephemeral one) and then waits  *)
(* with the channel still idle; the channel becomes Open, with both halves *)
(* stored, only by the accept of a connection that follows that reply.     *)
(***************************************************************************)
\* The ports the listener of a Pasv may be bound to.
BoundPorts ==
    IF data_port.some /\ data_port.v # 0 THEN {data_port.v} ELSE EphemeralPorts

Accepted == Ev("accept", "", "", NoPath, {}, <<>>)

IsPassiveReply(e) ==
    /\ e.ev = "reply" /\ e.code = "EnteringPassiveMode" /\ e.text = "127,0,0,1"
    /\ Len(e.nums) = 2 /\ e.nums[2] \in 0..255

C26_PasvThenAccept ==
    [][/\ (Handled /\ Authenticated /\ writer = "open" /\ ~data_writer
              /\ last'.op = "Pasv" /\ task' # "failed")
          => /\ Len(out') = 1 /\ IsPassiveReply(out'[1])
             /\ out'[1].nums[1] * 256 + out'[1].nums[2] \in BoundPorts
             /\ task' = "accepting"
             /\ ~data_writer' /\ ~data_reader'
       /\ (~data_writer /\ data_writer')
          => /\ task = "accepting" /\ task' = "running"
             /\ last.op = "Pasv" /\ Len(out) = 1 /\ IsPassiveReply(out[1])
             /\ out' = Append(out, Accepted)
             /\ data_reader']_vars

\* Port 2121 then Pasv: the reply 127,0,0,1,8,73 went out, then the one
\* connection was accepted and both halves are stored.
C26_Witness ==
    /\ last.op = "Pasv" /\ data_port = SomePort(2121)
    /\ out = <<AnswerNums("EnteringPassiveMode", "127,0,0,1", <<8, 73>>), Accepted>>
    /\ data_writer /\ data_reader /\ task = "running"

(***************************************************************************)
(* C27.  No sequence of commands removes the sandbox root directory: a Rmd *)
(* whose argument resolves to the root is answered FileNotFound and        *)
(* deletes nothing, so the root is a directory of the file system in every *)
(* reachable state.                                                        *)
(***************************************************************************)
C27_RootNeverRemoved ==
    /\ ServerRootReal \in DOMAIN fs
    /\ Kind(NodeAt(fs, ServerRootReal)) = "dir"
====
